---- MODULE Spec2Model ----
(***************************************************************************)
(* State-machine model of class SimpleController                           *)
(* (src/class/simplecontroller.js): one browser session driven through a   *)
(* Puppeteer page, with the helper module "../include/functions" and the   *)
(* Puppeteer driver at its boundary.                                       *)
(***************************************************************************)
EXTENDS Integers, Sequences, FiniteSets, TLC

\* ------------------------------------------------------------------ bounds
MaxInit    == 2      \* number of init() calls explored
MaxEpoch   == 2      \* number of page navigations explored per page
MaxRounds  == 4      \* scroll rounds after which the scroll engine gives up
MaxIter    == 3      \* largest minIterations a caller passes
StackLimit == 3      \* call-stack depth at which the engine raises RangeError

\* --------------------------------------------------------- program constants
DefaultMinScrolls    == 11
DefaultMaxScrolls    == 15
DefaultMinIterations == 0

\* ------------------------------------------------------------ input domains
Sels     == {"a", "b"}                      \* CSS selectors
URLs     == {<<1, 2>>, <<2>>}               \* frame URLs (strings over {1,2})
Prefixes == {<<>>, <<1>>, <<1, 2>>, <<2, 1>>}  \* arguments of focusFrame
Bools    == {"true", "false"}               \* JS booleans
Identities == {"id1", "id2"}                \* Identity objects

VARIABLES
    _page,      \* this._page     (0 = null)
    _frame,     \* this._frame    (a frame reference, null or undefined)
    _pages,     \* this._pages    (<<>> = never assigned)
    _browser,   \* this._browser  (0 = null)
    _identity,  \* this._identity
    nInit,      \* browsers launched so far (names the next page/browser)
    epoch,      \* navigations of the current page
    frames,     \* URLs of the frames of the current document
    call,       \* the most recent controller call and its outcome
    clickP,     \* click promise of a running ...AndWait call
    navP,       \* navigation-wait promise of a ...AndWait call
    bgClick     \* element.click() dispatched without await

vars == <<_page, _frame, _pages, _browser, _identity, nInit, epoch, frames,
          call, clickP, navP, bgClick>>

ctl   == <<_page, _frame, _pages, _browser, _identity, nInit>>
world == <<epoch, frames>>
async == <<clickP, navP, bgClick>>

\* ---------------------------------------------------------- object references
Undefined == [kind |-> "undefined", page |-> 0, epoch |-> 0, url |-> <<>>]
Null      == [kind |-> "null", page |-> 0, epoch |-> 0, url |-> <<>>]
FrameRef(p, e, u) == [kind |-> "frame", page |-> p, epoch |-> e, url |-> u]
PageRef(p, e)     == [kind |-> "page", page |-> p, epoch |-> e, url |-> <<>>]

\* a frame object resolved in a document the page has since left
Stale(f) == f.kind = "frame" /\ (f.page # _page \/ f.epoch # epoch)

Drv(act, on) == [act |-> act, on |-> on]

NoArgs == [n |-> 0]
NoEng  == [used |-> FALSE]

\* the record of a call: what was asked, the session it saw, and its outcome
Mk(op, args, out, err, val, drv, eng) ==
    [op |-> op, args |-> args, out |-> out, err |-> err, val |-> val,
     drv |-> drv, eng |-> eng, page |-> _page, frame |-> _frame,
     epoch |-> epoch]

Idle == call.out # "pending"

\* String.prototype.startsWith
StartsWith(u, p) == Len(p) <= Len(u) /\ SubSeq(u, 1, Len(p)) = p

\* ------------------------------------------------------------- constructor
Init ==
    /\ _page = 0
    /\ _frame = Undefined
    /\ _pages = <<>>
    /\ _browser = 0
    /\ _identity \in Identities
    /\ nInit = 0
    /\ epoch = 0
    /\ frames = {}
    /\ call = [op |-> "constructor", args |-> NoArgs, out |-> "ok",
               err |-> "none", val |-> "undefined", drv |-> <<>>,
               eng |-> NoEng, page |-> 0, frame |-> Undefined, epoch |-> 0]
    /\ clickP = "none"
    /\ navP = "none"
    /\ bgClick = "none"

\* a navigation of the page: new document, new frame tree; a navigation-wait
\* that is still outstanding observes it
NavTo(fs) ==
    /\ epoch' = epoch + 1
    /\ frames' = fs
    /\ navP' = IF navP = "pending" THEN "ok" ELSE navP

\* ------------------------------------------------------------------- init
\* Functions.init(Puppeteer, endpoint, executablePath): launches or attaches a
\* browser and opens one page; fails when the driver cannot be launched.
FnInit(ok) ==
    IF ok THEN [out |-> "ok", err |-> "none", page |-> nInit + 1,
                browser |-> nInit + 1]
          ELSE [out |-> "throw", err |-> "InitializationError", page |-> 0,
                browser |-> 0]

\* init() that forgets line 52 (this._frame = null)
init_keepsFrame(ok) ==
    /\ Idle
    /\ nInit < MaxInit
    /\ LET r == FnInit(ok) IN
       IF r.out = "ok"
       THEN /\ _page' = r.page
            /\ _frame' = _frame
            /\ _pages' = <<r.page>>
            /\ _browser' = r.browser
            /\ _identity' = _identity
            /\ nInit' = nInit + 1
            /\ epoch' = 0
            /\ frames' = {}
            /\ clickP' = "none" /\ navP' = "none" /\ bgClick' = "none"
            /\ call' = Mk("init", NoArgs, "ok", "none", "undefined", <<>>, NoEng)
       ELSE /\ call' = Mk("init", NoArgs, "throw", r.err, "undefined", <<>>, NoEng)
            /\ UNCHANGED <<ctl, world, async>>

\* init() that clears the focused frame before awaiting Functions.init
init_resetsFirst(ok) ==
    /\ Idle
    /\ nInit < MaxInit
    /\ LET r == FnInit(ok) IN
       IF r.out = "ok"
       THEN /\ _page' = r.page
            /\ _frame' = Null
            /\ _pages' = <<r.page>>
            /\ _browser' = r.browser
            /\ _identity' = _identity
            /\ nInit' = nInit + 1
            /\ epoch' = 0
            /\ frames' = {}
            /\ clickP' = "none" /\ navP' = "none" /\ bgClick' = "none"
            /\ call' = Mk("init", NoArgs, "ok", "none", "undefined", <<>>, NoEng)
       ELSE /\ call' = Mk("init", NoArgs, "throw", r.err, "undefined", <<>>, NoEng)
            /\ _frame' = Null
            /\ UNCHANGED <<_page, _pages, _browser, _identity, nInit, world, async>>

\* init(executablePath): the page, frame, page list and browser are assigned
\* only after Functions.init returned; the driver promises of the page that
\* is dropped are no longer followed
init(ok) ==
    /\ Idle
    /\ nInit < MaxInit
    /\ LET r == FnInit(ok) IN
       IF r.out = "ok"
       THEN /\ _page' = r.page
            /\ _frame' = Null
            /\ _pages' = <<r.page>>
            /\ _browser' = r.browser
            /\ _identity' = _identity
            /\ nInit' = nInit + 1
            /\ epoch' = 0
            /\ frames' = {}
            /\ clickP' = "none" /\ navP' = "none" /\ bgClick' = "none"
            /\ call' = Mk("init", NoArgs, "ok", "none", "undefined", <<>>, NoEng)
       ELSE /\ call' = Mk("init", NoArgs, "throw", r.err, "undefined", <<>>, NoEng)
            /\ UNCHANGED <<ctl, world, async>>

Throw(op, args, err, drv) == Mk(op, args, "throw", err, "undefined", drv, NoEng)
Ok(op, args, val, drv)    == Mk(op, args, "ok", "none", val, drv, NoEng)

NoNav == UNCHANGED <<epoch, frames, navP>>
SelArg(sel) == [sel |-> sel]

\* --------------------------------------------------------- frame resolver
\* Functions.getFrame(page, url): the frames of the page whose URL starts with
\* url (any of them may be the one returned), null when there is none.
FnGetFrame(page, url) ==
    IF page = 0 THEN {Null}
    ELSE LET m == {u \in frames : StartsWith(u, url)} IN
         IF m = {} THEN {Null} ELSE {FrameRef(page, epoch, u) : u \in m}

\* focusFrame with the test of line 72 inverted
focusFrame_inverted(url) ==
    /\ Idle
    /\ \E frame \in FnGetFrame(_page, url) :
         LET drv == IF _page = 0 THEN <<>>
                    ELSE <<Drv("page.frames", PageRef(_page, epoch))>> IN
         IF frame = Null
         THEN /\ _frame' = frame
              /\ call' = Mk("focusFrame", [url |-> url], "ok", "none", "true",
                            drv, [frames |-> frames])
         ELSE /\ _frame' = _frame
              /\ call' = Mk("focusFrame", [url |-> url], "ok", "none", "false",
                            drv, [frames |-> frames])
    /\ UNCHANGED <<_page, _pages, _browser, _identity, nInit, world, async>>

focusFrame(url) ==
    /\ Idle
    /\ \E frame \in FnGetFrame(_page, url) :
         LET drv == IF _page = 0 THEN <<>>
                    ELSE <<Drv("page.frames", PageRef(_page, epoch))>> IN
         IF frame # Null
         THEN /\ _frame' = frame
              /\ call' = Mk("focusFrame", [url |-> url], "ok", "none", "true",
                            drv, [frames |-> frames])
         ELSE /\ _frame' = _frame
              /\ call' = Mk("focusFrame", [url |-> url], "ok", "none", "false",
                            drv, [frames |-> frames])
    /\ UNCHANGED <<_page, _pages, _browser, _identity, nInit, world, async>>

\* page.$(selector) then handle.contentFrame()
focusFrameSelector(selector) ==
    /\ Idle
    /\ IF _page = 0
       THEN /\ call' = Throw("focusFrameSelector", SelArg(selector), "TypeError", <<>>)
            /\ _frame' = _frame
       ELSE \E handle \in BOOLEAN :
              LET q == Drv("page.$", PageRef(_page, epoch)) IN
              IF ~handle
              THEN /\ call' = Ok("focusFrameSelector", SelArg(selector), "false", <<q>>)
                   /\ _frame' = _frame
              ELSE \E cf \in {Null} \cup {FrameRef(_page, epoch, u) : u \in frames} :
                     /\ _frame' = cf
                     /\ call' = Ok("focusFrameSelector", SelArg(selector),
                                   IF cf # Null THEN "true" ELSE "false",
                                   <<q, Drv("handle.contentFrame", PageRef(_page, epoch))>>)
    /\ UNCHANGED <<_page, _pages, _browser, _identity, nInit, world, async>>

\* --------------------------------------------------- frame-scoped operations
\* What the driver answers when a method of the object in this._frame is
\* called: a null/undefined receiver is a TypeError before any driver
\* action; a frame of a document the page has left is either detached (the
\* driver rejects) or still served by the driver (the main frame object
\* survives navigations).
FrameQuery(f) ==
    IF f.kind # "frame" THEN {"TypeError"}
    ELSE IF Stale(f) THEN {"detached", "found", "absent"}
    ELSE {"found", "absent"}

typeFrame(selector) ==
    /\ Idle
    /\ \E q \in FrameQuery(_frame) :
         LET a == SelArg(selector)
             d == Drv("frame.$", _frame) IN
         CASE q = "TypeError" ->
                /\ call' = Throw("typeFrame", a, "TypeError", <<>>)
                /\ bgClick' = bgClick
           [] q = "detached" ->
                /\ call' = Throw("typeFrame", a, "DriverError", <<d>>)
                /\ bgClick' = bgClick
           [] q = "absent" ->
                /\ call' = Throw("typeFrame", a, "TypeError", <<d>>)
                /\ bgClick' = bgClick
           [] q = "found" ->
                \E typed \in BOOLEAN, c \in {"pending", "ok", "fail"} :
                  LET dd == <<d, Drv("element.click", _frame), Drv("element.type", _frame)>> IN
                  /\ bgClick' = c
                  /\ call' = IF typed THEN Ok("typeFrame", a, "undefined", dd)
                                      ELSE Throw("typeFrame", a, "DriverError", dd)
    /\ UNCHANGED <<ctl, world, clickP, navP>>

clickFrame(selector) ==
    /\ Idle
    /\ \E q \in FrameQuery(_frame) :
         LET a == SelArg(selector)
             d == Drv("frame.$", _frame) IN
         CASE q = "TypeError" ->
                /\ call' = Throw("clickFrame", a, "TypeError", <<>>)
                /\ bgClick' = bgClick
           [] q = "detached" ->
                /\ call' = Throw("clickFrame", a, "DriverError", <<d>>)
                /\ bgClick' = bgClick
           [] q = "absent" ->
                /\ call' = Throw("clickFrame", a, "TypeError", <<d>>)
                /\ bgClick' = bgClick
           [] q = "found" ->
                /\ bgClick' = "pending"
                /\ call' = Ok("clickFrame", a, "undefined",
                              <<d, Drv("element.click", _frame)>>)
    /\ UNCHANGED <<ctl, world, clickP, navP>>

selectFrame(selector) ==
    /\ Idle
    /\ \E q \in FrameQuery(_frame) :
         LET a == SelArg(selector)
             d == Drv("frame.select", _frame) IN
         call' = CASE q = "TypeError" -> Throw("selectFrame", a, "TypeError", <<>>)
                   [] q = "found"     -> Ok("selectFrame", a, "undefined", <<d>>)
                   [] OTHER           -> Throw("selectFrame", a, "DriverError", <<d>>)
    /\ UNCHANGED <<ctl, world, async>>

\* the element.click() that clickFrame/typeFrame left running completes
BgClickSettle(ok) ==
    /\ bgClick = "pending"
    /\ bgClick' = IF ok THEN "ok" ELSE "fail"
    /\ UNCHANGED <<ctl, world, call, clickP, navP>>


\* ---------------------------------------------------- page-scoped operations
\* this._page.<method>(...) awaited: a null page is a TypeError before any
\* driver action; otherwise the driver performs the action or rejects.
click(selector, doTrigger) ==
    /\ Idle
    /\ LET a == [sel |-> selector, doTrigger |-> doTrigger]
           d == <<Drv("page.click", PageRef(_page, epoch))>> IN
       IF _page = 0
       THEN call' = Throw("click", a, "TypeError", <<>>) /\ NoNav
       ELSE \/ call' = Throw("click", a, "DriverError", d) /\ NoNav
            \/ call' = Ok("click", a, "undefined", d) /\ NoNav
            \/ /\ epoch < MaxEpoch
               /\ call' = Ok("click", a, "undefined", d)
               /\ \E fs \in SUBSET URLs : NavTo(fs)
    /\ UNCHANGED <<ctl, clickP, bgClick>>

hover(selector) ==
    /\ Idle
    /\ LET a == SelArg(selector)
           d == <<Drv("page.hover", PageRef(_page, epoch))>> IN
       IF _page = 0
       THEN call' = Throw("hover", a, "TypeError", <<>>)
       ELSE \/ call' = Throw("hover", a, "DriverError", d)
            \/ call' = Ok("hover", a, "undefined", d)
    /\ UNCHANGED <<ctl, world, async>>

select(selector) ==
    /\ Idle
    /\ LET a == SelArg(selector)
           d == <<Drv("page.select", PageRef(_page, epoch))>> IN
       IF _page = 0
       THEN call' = Throw("select", a, "TypeError", <<>>)
       ELSE \/ call' = Throw("select", a, "DriverError", d)
            \/ call' = Ok("select", a, "undefined", d)
    /\ UNCHANGED <<ctl, world, async>>

goto ==
    /\ Idle
    /\ LET d == <<Drv("page.goto", PageRef(_page, epoch))>> IN
       IF _page = 0
       THEN call' = Throw("goto", NoArgs, "TypeError", <<>>) /\ NoNav
       ELSE \/ call' = Throw("goto", NoArgs, "TimeoutError", d) /\ NoNav
            \/ /\ epoch < MaxEpoch
               /\ call' = Ok("goto", NoArgs, "undefined", d)
               /\ \E fs \in SUBSET URLs : NavTo(fs)
    /\ UNCHANGED <<ctl, clickP, bgClick>>

goBack ==
    /\ Idle
    /\ LET d == <<Drv("page.goBack", PageRef(_page, epoch))>> IN
       IF _page = 0
       THEN call' = Throw("goBack", NoArgs, "TypeError", <<>>) /\ NoNav
       ELSE \/ call' = Throw("goBack", NoArgs, "TimeoutError", d) /\ NoNav
            \/ /\ epoch < MaxEpoch
               /\ call' = Ok("goBack", NoArgs, "undefined", d)
               /\ \E fs \in SUBSET URLs : NavTo(fs)
    /\ UNCHANGED <<ctl, clickP, bgClick>>

waitForNavigation ==
    /\ Idle
    /\ LET d == <<Drv("page.waitForNavigation", PageRef(_page, epoch))>> IN
       IF _page = 0
       THEN call' = Throw("waitForNavigation", NoArgs, "TypeError", <<>>) /\ NoNav
       ELSE \/ call' = Throw("waitForNavigation", NoArgs, "TimeoutError", d) /\ NoNav
            \/ /\ epoch < MaxEpoch
               /\ call' = Ok("waitForNavigation", NoArgs, "undefined", d)
               /\ \E fs \in SUBSET URLs : NavTo(fs)
    /\ UNCHANGED <<ctl, clickP, bgClick>>

\* ------------------------------------------------------------------- type
\* type(selector, text) awaits this.type(selector, text): every activation
\* makes the next one before anything else, until the call stack is
\* exhausted; the RangeError rejects every activation in turn.
RECURSIVE typeCall(_)
typeCall(depth) ==
    IF depth >= StackLimit
    THEN [out |-> "throw", err |-> "RangeError", drv |-> <<>>]
    ELSE typeCall(depth + 1)

type(selector) ==
    /\ Idle
    /\ LET r == typeCall(1) IN
       call' = Mk("type", SelArg(selector), r.out, r.err, "undefined", r.drv, NoEng)
    /\ UNCHANGED <<ctl, world, async>>

\* -------------------------------------------------------- waitForSelector
\* Functions.waitForSelector(page, selector, doThrow): polls for the element
\* up to the timeout; absent: ElementNotFoundError when doThrow, else false.
FnWaitForSelector(page, present, doThrow) ==
    IF page = 0 THEN [out |-> "throw", err |-> "InitializationError", val |-> "undefined"]
    ELSE IF present THEN [out |-> "ok", err |-> "none", val |-> "true"]
    ELSE IF doThrow = "true"
         THEN [out |-> "throw", err |-> "ElementNotFoundError", val |-> "undefined"]
         ELSE [out |-> "ok", err |-> "none", val |-> "false"]

waitForSelector(selector, doThrow) ==
    /\ Idle
    /\ \E present \in BOOLEAN :
         LET r == FnWaitForSelector(_page, present, doThrow) IN
         call' = Mk("waitForSelector", [sel |-> selector, doThrow |-> doThrow],
                    r.out, r.err, "undefined",
                    IF _page = 0 THEN <<>>
                    ELSE <<Drv("page.waitForSelector", PageRef(_page, epoch))>>,
                    [present |-> present, ret |-> r.val])
    /\ UNCHANGED <<ctl, world, async>>


\* ------------------------------------------------------------- scroll engine
Never == MaxRounds + 1      \* "the selector never becomes visible"

\* the engine's loop after scroll round r: done once the stop selector is
\* visible and minIterations rounds were made; gives up after MaxRounds
RECURSIVE ScrollRounds(_, _, _)
ScrollRounds(r, vis, minIterations) ==
    IF r >= vis /\ r >= minIterations
    THEN [out |-> "ok", err |-> "none", rounds |-> r]
    ELSE IF r >= MaxRounds
         THEN [out |-> "throw", err |-> "ElementNotFoundError", rounds |-> r]
         ELSE ScrollRounds(r + 1, vis, minIterations)

\* Functions.scrollDown(page, stopSelector, wait, press, minScrolls,
\* maxScrolls, minIterations).  visOf(s): the round after which selector s is
\* visible; a stop selector that is not a selector string is never visible,
\* or makes the first visibility poll fail (pollThrows).
FnScrollDown(page, stopSelector, wait, press, minScrolls, maxScrolls, minIterations, vis, pollThrows) ==
    LET got == [stopSelector |-> stopSelector, wait |-> wait, press |-> press,
                minScrolls |-> minScrolls, maxScrolls |-> maxScrolls,
                minIterations |-> minIterations]
        r == IF page = 0
             THEN [out |-> "throw", err |-> "InitializationError", rounds |-> 0]
             ELSE IF stopSelector \in Sels
                  THEN ScrollRounds(1, vis, minIterations)
                  ELSE IF pollThrows
                       THEN [out |-> "throw", err |-> "DriverError", rounds |-> 1]
                       ELSE ScrollRounds(1, Never, minIterations)
    IN [out |-> r.out, err |-> r.err, rounds |-> r.rounds, got |-> got]

scrollDown(stopSelector, wait, press, minScrolls, maxScrolls, minIterations) ==
    /\ Idle
    /\ \E vis \in {1, Never}, pollThrows \in BOOLEAN :
         LET r == FnScrollDown(_page, wait, press, minScrolls, maxScrolls,
                               minIterations, DefaultMinIterations,
                               vis, pollThrows) IN
         call' = Mk("scrollDown",
                    [stopSelector |-> stopSelector, wait |-> wait,
                     press |-> press, minScrolls |-> minScrolls,
                     maxScrolls |-> maxScrolls, minIterations |-> minIterations,
                     vis |-> vis],
                    r.out, r.err, "undefined",
                    IF _page = 0 THEN <<>>
                    ELSE <<Drv("scroll", PageRef(_page, epoch))>>,
                    [got |-> r.got, rounds |-> r.rounds])
    /\ UNCHANGED <<ctl, world, async>>

\* Functions.scrollUp(page, stopSelector, wait, press, minScrolls, maxScrolls)
FnScrollUp(page, stopSelector, wait, press, minScrolls, maxScrolls, vis) ==
    LET got == [stopSelector |-> stopSelector, wait |-> wait, press |-> press,
                minScrolls |-> minScrolls, maxScrolls |-> maxScrolls]
        r == IF page = 0
             THEN [out |-> "throw", err |-> "InitializationError", rounds |-> 0]
             ELSE ScrollRounds(1, IF stopSelector \in Sels THEN vis ELSE Never, 0)
    IN [out |-> r.out, err |-> r.err, rounds |-> r.rounds, got |-> got]

scrollUp(stopSelector, wait, press, minScrolls, maxScrolls) ==
    /\ Idle
    /\ \E vis \in {1, Never} :
         LET r == FnScrollUp(_page, stopSelector, wait, press, minScrolls,
                             maxScrolls, vis) IN
         call' = Mk("scrollUp",
                    [stopSelector |-> stopSelector, wait |-> wait,
                     press |-> press, minScrolls |-> minScrolls,
                     maxScrolls |-> maxScrolls, vis |-> vis],
                    r.out, r.err, "undefined",
                    IF _page = 0 THEN <<>>
                    ELSE <<Drv("scroll", PageRef(_page, epoch))>>,
                    [got |-> r.got, rounds |-> r.rounds])
    /\ UNCHANGED <<ctl, world, async>>

\* Functions.scrollToSelector(page, stopSelector, wait)
FnScrollToSelector(page, stopSelector, wait, vis) ==
    LET got == [stopSelector |-> stopSelector, wait |-> wait]
        r == IF page = 0
             THEN [out |-> "throw", err |-> "InitializationError", rounds |-> 0]
             ELSE ScrollRounds(1, IF stopSelector \in Sels THEN vis ELSE Never, 0)
    IN [out |-> r.out, err |-> r.err, rounds |-> r.rounds, got |-> got]

scrollToSelector(stopSelector, wait) ==
    /\ Idle
    /\ \E vis \in {1, Never} :
         LET r == FnScrollToSelector(_page, stopSelector, wait, vis) IN
         call' = Mk("scrollToSelector",
                    [stopSelector |-> stopSelector, wait |-> wait, vis |-> vis],
                    r.out, r.err, "undefined",
                    IF _page = 0 THEN <<>>
                    ELSE <<Drv("scroll", PageRef(_page, epoch))>>,
                    [got |-> r.got, rounds |-> r.rounds])
    /\ UNCHANGED <<ctl, world, async>>

\* scrollToBottom: Functions.getBottomSelector(page) names the last element
\* of the document, Functions.scrollDown(page, bottomSelector) scrolls to it
\* with the engine's defaults
scrollToBottom ==
    /\ Idle
    /\ \E bottomSelector \in Sels, vis \in {1, Never} :
         LET r == FnScrollDown(_page, bottomSelector, "true", "false",
                               DefaultMinScrolls, DefaultMaxScrolls,
                               DefaultMinIterations, vis, FALSE) IN
         call' = Mk("scrollToBottom", [vis |-> vis],
                    r.out, r.err, "undefined",
                    IF _page = 0 THEN <<>>
                    ELSE <<Drv("scroll", PageRef(_page, epoch))>>,
                    [got |-> r.got, rounds |-> r.rounds])
    /\ UNCHANGED <<ctl, world, async>>

\* ---------------------------------------------------------------- dispose
\* The class has no dispose member: controller.dispose() is a call of
\* undefined, a TypeError that leaves the session as it was.
dispose ==
    /\ Idle
    /\ call' = Throw("dispose", NoArgs, "TypeError", <<>>)
    /\ UNCHANGED <<ctl, world, async>>

\* ------------------------------------------------ click + navigation-wait
\* Promise.race-like settlement: fulfilled as soon as one promise is
PromiseAll_any(c, n) ==
    IF c = "fail" \/ n = "fail" THEN "throw"
    ELSE IF c = "ok" \/ n = "ok" THEN "ok"
    ELSE "pending"

\* Promise.all over the click promise c and the navigation-wait promise n
PromiseAll(c, n) ==
    IF c = "fail" \/ n = "fail" THEN "throw"
    ELSE IF c = "ok" /\ n = "ok" THEN "ok"
    ELSE "pending"

\* the running ...AndWait call after its promises became c and n; err is the
\* error of the promise that has just rejected
Settled(c, n, err) ==
    IF call.out # "pending" THEN call
    ELSE [call EXCEPT !.out = PromiseAll(c, n),
                      !.err = IF PromiseAll(c, n) = "throw" THEN err ELSE "none"]

clickAndWait(selector) ==
    /\ Idle
    /\ IF _page = 0
       THEN /\ call' = Throw("clickAndWait", SelArg(selector), "TypeError", <<>>)
            /\ clickP' = "fail"
            /\ navP' = "fail"
       ELSE /\ call' = Mk("clickAndWait", SelArg(selector),
                          PromiseAll("pending", "pending"), "none", "undefined",
                          <<Drv("page.click", PageRef(_page, epoch)),
                            Drv("page.waitForNavigation", PageRef(_page, epoch))>>,
                          NoEng)
            /\ clickP' = "pending"
            /\ navP' = "pending"
    /\ UNCHANGED <<ctl, world, bgClick>>

\* the driver completes (or rejects) the page.click of clickAndWait
ClickSettle(ok) ==
    /\ call.op = "clickAndWait"
    /\ clickP = "pending"
    /\ clickP' = IF ok THEN "ok" ELSE "fail"
    /\ call' = Settled(clickP', navP, "DriverError")
    /\ UNCHANGED <<ctl, world, navP, bgClick>>

clickFrameAndWait(selector) ==
    /\ Idle
    /\ LET a == SelArg(selector)
           w == Drv("page.waitForNavigation", PageRef(_page, epoch)) IN
       IF _page = 0
       THEN /\ call' = Throw("clickFrameAndWait", a, "TypeError", <<>>)
            /\ clickP' = "fail"
            /\ navP' = navP
       ELSE IF _frame.kind # "frame"
       THEN /\ call' = Throw("clickFrameAndWait", a, "TypeError", <<w>>)
            /\ clickP' = "fail"
            /\ navP' = "pending"
       ELSE /\ call' = Mk("clickFrameAndWait", a,
                          PromiseAll("pending", "pending"), "none", "undefined",
                          <<Drv("frame.$", _frame), w>>, NoEng)
            /\ clickP' = "pending"
            /\ navP' = "pending"
    /\ UNCHANGED <<ctl, world, bgClick>>

\* the driver answers the frame.$ of the clickFrame inside clickFrameAndWait;
\* on an element, element.click() is dispatched and clickFrame returns
ClickFrameSettle ==
    /\ call.op = "clickFrameAndWait"
    /\ clickP = "pending"
    /\ \E q \in FrameQuery(call.frame) :
         CASE q = "found" ->
                /\ clickP' = "ok"
                /\ bgClick' = "pending"
                /\ call' = [Settled("ok", navP, "none") EXCEPT
                              !.drv = Append(@, Drv("element.click", call.frame))]
           [] q = "absent" ->
                /\ clickP' = "fail"
                /\ bgClick' = bgClick
                /\ call' = Settled("fail", navP, "TypeError")
           [] OTHER ->
                /\ clickP' = "fail"
                /\ bgClick' = bgClick
                /\ call' = Settled("fail", navP, "DriverError")
    /\ UNCHANGED <<ctl, world, navP>>

\* the page navigates while a navigation-wait is outstanding
NavOk ==
    /\ navP = "pending"
    /\ epoch < MaxEpoch
    /\ \E fs \in SUBSET URLs : NavTo(fs)
    /\ call' = Settled(clickP, "ok", "none")
    /\ UNCHANGED <<ctl, clickP, bgClick>>

\* the outstanding navigation-wait times out
NavFail ==
    /\ navP = "pending"
    /\ navP' = "fail"
    /\ call' = Settled(clickP, "fail", "TimeoutError")
    /\ UNCHANGED <<ctl, world, clickP, bgClick>>


\* ------------------------------------------------------------- screenshot
\* Functions.logScreenshot(page, text, fullPage): captures the page and logs it
FnLogScreenshot(page, ok) ==
    IF page = 0 THEN [out |-> "throw", err |-> "InitializationError", drv |-> <<>>]
    ELSE IF ok THEN [out |-> "ok", err |-> "none",
                     drv |-> <<Drv("page.screenshot", PageRef(page, epoch))>>]
    ELSE [out |-> "throw", err |-> "DriverError",
          drv |-> <<Drv("page.screenshot", PageRef(page, epoch))>>]

logScreenshot ==
    /\ Idle
    /\ \E ok \in BOOLEAN :
         LET r == FnLogScreenshot(_page, ok) IN
         call' = Mk("logScreenshot", NoArgs, r.out, r.err, "undefined", r.drv, NoEng)
    /\ UNCHANGED <<ctl, world, async>>

\* --------------------------------------------------------------- accessors
getPage ==
    /\ Idle
    /\ call' = Mk("getPage", NoArgs, "ok", "none", "object", <<>>,
                  [retPage |-> _page])
    /\ UNCHANGED <<ctl, world, async>>

getFrame ==
    /\ Idle
    /\ call' = Mk("getFrame", NoArgs, "ok", "none", "object", <<>>,
                  [retFrame |-> _frame])
    /\ UNCHANGED <<ctl, world, async>>

\* getIdentity returning the other constructor argument (this._endpoint)
getIdentity_endpoint ==
    /\ Idle
    /\ call' = Mk("getIdentity", NoArgs, "ok", "none", "object", <<>>,
                  [retIdentity |-> "null"])
    /\ UNCHANGED <<ctl, world, async>>

getIdentity ==
    /\ Idle
    /\ call' = Mk("getIdentity", NoArgs, "ok", "none", "object", <<>>,
                  [retIdentity |-> _identity])
    /\ UNCHANGED <<ctl, world, async>>

\* ----------------------------------------------------------- captcha bridge
\* this._iframe: a field no method assigns
_iframe == Undefined

\* Functions.solveRecaptcha(frame, selector): reads the site key from the
\* reCAPTCHA iframe inside the given frame and asks the solving service for a
\* token; without a frame there is nothing to read from.
FnSolveRecaptcha(frame, solved) ==
    IF frame.kind # "frame" THEN [out |-> "throw", err |-> "TypeError", val |-> "undefined"]
    ELSE IF solved THEN [out |-> "ok", err |-> "none", val |-> "token"]
    ELSE [out |-> "throw", err |-> "CaptchaServiceError", val |-> "undefined"]

solveRecaptcha(selector) ==
    /\ Idle
    /\ \E solved \in BOOLEAN :
         LET r == FnSolveRecaptcha(_iframe, solved) IN
         call' = Mk("solveRecaptcha", SelArg(selector), r.out, r.err, r.val,
                    <<>>, [gotFrame |-> _iframe])
    /\ UNCHANGED <<ctl, world, async>>

\* =================================================================== claims
FrameOps == {"typeFrame", "clickFrame", "selectFrame"}
InteractionOps == {"click", "hover", "select", "goto", "goBack", "type",
                   "waitForSelector", "waitForNavigation", "typeFrame",
                   "clickFrame", "selectFrame", "clickAndWait",
                   "clickFrameAndWait"}

\* the frame the call used had been resolved before the page's last navigation
StaleAtCall == call.frame.kind = "frame" /\ call.frame.epoch # call.epoch

\* C1: clickAndWait is never fulfilled while its click or its navigation-wait
\* is still pending (or has failed): fulfilled implies both completed.
C1_ResolvesAfterBoth ==
    (call.op = "clickAndWait" /\ call.out = "ok") =>
        (clickP = "ok" /\ navP = "ok")

C1_Witness == call.op = "clickAndWait" /\ call.out = "ok" /\ call.epoch < epoch

\* C2: a typeFrame/clickFrame/selectFrame call on a frame resolved before a
\* navigation fails with FrameNotResolvedError and issues no driver action.
C2_StaleFrameRejected ==
    (call.op \in FrameOps /\ StaleAtCall) =>
        (call.out = "throw" /\ call.err = "FrameNotResolvedError"
         /\ call.drv = <<>>)

\* C3: on an initialized session whose focused frame is null, typeFrame,
\* clickFrame and selectFrame fail with FrameNotResolvedError.
C3_NullFrameRejected ==
    (call.op \in FrameOps /\ call.page # 0 /\ call.frame = Null) =>
        (call.out = "throw" /\ call.err = "FrameNotResolvedError")

\* C4: before init() (page is null) every interaction method fails, and only
\* with InitializationError or DisposedError.
C4_UninitializedRejected ==
    (call.op \in InteractionOps /\ call.page = 0) =>
        (call.out = "throw"
         /\ call.err \in {"InitializationError", "DisposedError"})

\* C5: right after a successful init() the page is non-null, the focused
\* frame is null and the open-page list holds exactly that page.
C5_InitPostcondition ==
    (call.op = "init" /\ call.out = "ok") =>
        (_page # 0 /\ _frame = Null /\ _pages = <<_page>>)

C5_Witness == call.op = "init" /\ call.out = "ok" /\ call.frame.kind = "frame"

\* C6: dispose() succeeds and releases the browser connection (the session
\* is Disposed: no browser, no page).
C6_DisposeReleases ==
    call.op = "dispose" =>
        (call.out = "ok" /\ _browser = 0 /\ _page = 0)

C8_WaitForSelectorResult ==
    (call.op = "waitForSelector" /\ call.page # 0 /\ ~call.eng.present) =>
        IF call.args.doThrow = "true"
        THEN call.out = "throw" /\ call.err = "ElementNotFoundError"
        ELSE call.out = "ok" /\ call.val = "false"

\* C9: on a Ready session type(selector, text) returns normally after having
\* issued driver actions (focus, key events).
C9_TypeTerminates ==
    (call.op = "type" /\ call.page # 0) =>
        (call.out = "ok" /\ call.drv # <<>>)

\* C10: scrollDown with minIterations = n makes at least n scroll rounds, and
\* n is the minIterations the scroll engine works with.
C10_MinIterationsGoverns ==
    (call.op = "scrollDown" /\ call.page # 0) =>
        (/\ call.eng.got.minIterations = call.args.minIterations
         /\ call.eng.rounds >= call.args.minIterations)

AwaitingOps == {"clickFrame", "typeFrame", "clickFrameAndWait"}

\* C11: when clickFrame, typeFrame or clickFrameAndWait has returned, the
\* element click it dispatched is no longer in flight.
C11_ClickAwaited ==
    (call.op \in AwaitingOps /\ call.out = "ok") => bgClick # "pending"

\* C12: with doTrigger = true a failure of click comes from the
\* script-triggered fallback click, never from the driver's click dispatch;
\* with doTrigger = false the dispatch failure is what the caller gets.
C12_FallbackOnDispatchFailure ==
    (call.op = "click" /\ call.page # 0 /\ call.out = "throw") =>
        IF call.args.doTrigger = "true"
        THEN call.drv[Len(call.drv)].act = "page.evaluate"
        ELSE call.drv[Len(call.drv)].act = "page.click"

\* C13: every completed click took exactly one screenshot of the page.
C13_ClickScreenshot ==
    (call.op = "click" /\ call.page # 0) =>
        Cardinality({i \in DOMAIN call.drv :
                        call.drv[i].act = "page.screenshot"}) = 1

Accessors == {"getPage", "getFrame", "getIdentity"}

\* C14: the identity is never replaced, and a getPage/getFrame/getIdentity
\* call changes no session state, issues no driver call and returns the
\* field it names.
C14_PureAccessors ==
    [][/\ _identity' = _identity
       /\ (call' # call /\ call'.op \in Accessors) =>
            /\ UNCHANGED <<_page, _frame, _pages, _browser, epoch, frames,
                           clickP, navP, bgClick>>
            /\ call'.drv = <<>>
            /\ call'.out = "ok"
            /\ call'.op = "getPage" => call'.eng.retPage = _page
            /\ call'.op = "getFrame" => call'.eng.retFrame = _frame
            /\ call'.op = "getIdentity" => call'.eng.retIdentity = _identity]_vars

C14_Witness ==
    /\ call.op = "getIdentity"
    /\ call.eng.retIdentity = "id2"
    /\ call.frame.kind = "frame"
    /\ nInit = 2

\* C19: an init() that fails changes neither page, focused frame, page list
\* nor browser; after a failed first init() page and browser are still null.
C19_FailedInitKeepsState ==
    [][(call' # call /\ call'.op = "init" /\ call'.out = "throw") =>
         /\ UNCHANGED <<_page, _frame, _pages, _browser>>
         /\ nInit' = 0 => (_page' = 0 /\ _browser' = 0 /\ _pages' = <<>>)]_vars

C19_Witness ==
    call.op = "init" /\ call.out = "throw" /\ call.frame.kind = "frame"

\* C20: on a Ready session solveRecaptcha hands the captcha bridge a frame,
\* the one the session has focused, and with a focused frame a call that
\* returns yields the service's token.
C20_RecaptchaFrame ==
    (call.op = "solveRecaptcha" /\ call.page # 0) =>
        /\ call.eng.gotFrame.kind # "undefined"
        /\ call.eng.gotFrame = call.frame
        /\ (call.frame.kind = "frame" /\ call.out = "ok") => call.val = "token"

\* C16: no clickFrame, typeFrame or clickFrameAndWait call has returned
\* successfully when the element click it dispatched fails.
C16_FailureInsideCall ==
    (call.op \in AwaitingOps /\ call.out = "ok") => bgClick # "fail"

\* C17: a focusFrame or focusFrameSelector call that returned false left the
\* focused frame as it was before the call.
C17_FalseKeepsFrame ==
    (call.op \in {"focusFrame", "focusFrameSelector"}
     /\ call.out = "ok" /\ call.val = "false") =>
        _frame = call.frame

\* C18: once clickAndWait or clickFrameAndWait has settled, with success or
\* with failure, the navigation-wait it started is no longer pending.
C18_NoWaitLeftPending ==
    (call.op \in {"clickAndWait", "clickFrameAndWait"}
     /\ call.out # "pending") =>
        navP # "pending"

\* C15: the scroll engine checks the stop selector the caller passed to
\* scrollDown, scrollUp or scrollToSelector, and every other argument
\* reaches the engine in the caller's role.
C15_ArgumentsKeepRole ==
    (call.op \in {"scrollDown", "scrollUp", "scrollToSelector"}
     /\ call.page # 0) =>
        /\ call.eng.got.stopSelector = call.args.stopSelector
        /\ call.eng.got.wait = call.args.wait
        /\ call.op # "scrollToSelector" =>
             (/\ call.eng.got.press = call.args.press
              /\ call.eng.got.minScrolls = call.args.minScrolls
              /\ call.eng.got.maxScrolls = call.args.maxScrolls)
        /\ call.op = "scrollDown" =>
             call.eng.got.minIterations = call.args.minIterations

Next ==
    \/ dispose
    \/ \E s \in Sels : clickAndWait(s)
    \/ \E ok \in BOOLEAN : ClickSettle(ok)
    \/ \E s \in Sels : clickFrameAndWait(s)
    \/ ClickFrameSettle
    \/ NavOk
    \/ NavFail
    \/ \E s \in Sels, t \in Bools : click(s, t)
    \/ \E s \in Sels : hover(s)
    \/ \E s \in Sels : select(s)
    \/ goto
    \/ goBack
    \/ waitForNavigation
    \/ \E s \in Sels \cup {""} : type(s)
    \/ \E s \in Sels, t \in Bools : waitForSelector(s, t)
    \/ \E ok \in BOOLEAN : init(ok)
    \/ \E url \in Prefixes : focusFrame(url)
    \/ \E s \in Sels : focusFrameSelector(s)
    \/ \E s \in Sels : typeFrame(s)
    \/ \E s \in Sels : clickFrame(s)
    \/ \E s \in Sels : selectFrame(s)
    \/ \E ok \in BOOLEAN : BgClickSettle(ok)
    \/ logScreenshot
    \/ getPage
    \/ getFrame
    \/ getIdentity
    \/ \E s \in Sels : solveRecaptcha(s)

Spec == Init /\ [][Next]_vars

\* the scroll operations on their own, over a session that init may have
\* made Ready
NextScroll ==
    \/ \E ok \in BOOLEAN : init(ok)
    \/ \E s \in Sels, w \in Bools, p \in Bools, n \in 0..MaxIter :
         scrollDown(s, w, p, DefaultMinScrolls, DefaultMaxScrolls, n)
    \/ \E s \in Sels, w \in Bools, p \in Bools :
         scrollUp(s, w, p, DefaultMinScrolls, DefaultMaxScrolls)
    \/ \E s \in Sels, w \in Bools : scrollToSelector(s, w)
    \/ scrollToBottom

SpecScroll == Init /\ [][NextScroll]_vars
====
